---- MODULE Spec2Model ----
(***************************************************************************)
(* A model of basic_song_analyzer_mcp:                                     *)
(*   - remap_midi_tempo_meter (src/remap_midi_tempo_meter.py), the MIDI    *)
(*     retiming pipeline, as a state machine that walks through the        *)
(*     function's stages (specification Spec);                             *)
(*   - calculate_segmentation (src/main.py), the merge loop and the        *)
(*     recursive split (specification SegSpec).                            *)
(* Real numbers (seconds, BPM) are exact rationals <<n, d>> in lowest      *)
(* terms with d > 0; Python's round() is round-half-to-even.               *)
(***************************************************************************)
EXTENDS Integers, Sequences, FiniteSets, TLC

\* ------------------------------------------------------------------ bounds
MaxTracks == 2
MaxMsgs == 4
MaxMilestones == 4

\* ------------------------------------------------------- program constants
DefaultBpm == 120
DefaultTsNum == 4
DefaultTsDen == 4
MinBars == 2
MaxBars == 16

\* --------------------------------------------------------------- rationals
Abs(x) == IF x < 0 THEN -x ELSE x

RECURSIVE Gcd(_, _)
Gcd(a, b) == IF b = 0 THEN a ELSE Gcd(b, a % b)

Frac(n, d) ==
    LET g == Gcd(Abs(n), Abs(d))
        s == IF d < 0 THEN -1 ELSE 1
    IN  IF n = 0 THEN <<0, 1>> ELSE <<s * (n \div g), s * (d \div g)>>

\* (a/b) * (c/d), cross-reduced before multiplying so that products stay small
FracMul(x, y) ==
    LET p == Frac(x[1], y[2])
        q == Frac(y[1], x[2])
    IN  Frac(p[1] * q[1], p[2] * q[2])

FracDiv(x, y) == FracMul(x, <<y[2], y[1]>>)

FracLess(x, y) == x[1] * y[2] < y[1] * x[2]

\* Python 3 round(): nearest integer, ties to the even one
RoundHalfEven(x) ==
    LET n == x[1]
        d == x[2]
        q == n \div d
        r == n % d
    IN  IF 2 * r < d THEN q
        ELSE IF 2 * r > d THEN q + 1
        ELSE IF q % 2 = 0 THEN q ELSE q + 1

\* mido.tempo2bpm(tempo) = 60 * 1e6 / tempo
tempo2bpm(tempo) == Frac(60000000, tempo)

\* mido.bpm2tempo(bpm) = int(round(60 * 1e6 / bpm))
bpm2tempo(bpm) == RoundHalfEven(FracDiv(<<60000000, 1>>, bpm))

\* mido.tick2second(tick, ticks_per_beat, tempo) = tick * (tempo * 1e-6 / ticks_per_beat)
tick2second(tick, ticks_per_beat, tempo) ==
    FracMul(Frac(tick, ticks_per_beat), Frac(tempo, 1000000))

\* mido.second2tick(second, ticks_per_beat, tempo) = second / (tempo * 1e-6 / ticks_per_beat)
second2tick(second, ticks_per_beat, tempo) ==
    FracDiv(second, FracMul(Frac(tempo, 1000000), Frac(1, ticks_per_beat)))

\* ------------------------------------------------------------ input space
\* Messages of a track: the two control kinds the remap drops, and one kind
\* standing for every other message (its payload is the field note).
Tempos == {500000, 1000000}
TempoDeltas == {0}
TimeSigs == {<<6, 8>>}
TsDeltas == {0, 1}
NoteDeltas == {0, 960}
InputPPQs == {480}
TargetBpms == {60}
TargetPpqs == {960}
TargetTsNums == {3}
TargetTsDens == {2}

TempoMsg(t, d) ==
    [type |-> "set_tempo", time |-> d, tempo |-> t,
     numerator |-> 0, denominator |-> 0, note |-> 0]

TsMsg(n, dn, d) ==
    [type |-> "time_signature", time |-> d, tempo |-> 0,
     numerator |-> n, denominator |-> dn, note |-> 0]

NoteMsg(d, p) ==
    [type |-> "note_on", time |-> d, tempo |-> 0,
     numerator |-> 0, denominator |-> 0, note |-> p]

Alphabet ==
    {TempoMsg(t, d) : t \in Tempos, d \in TempoDeltas}
    \cup {TsMsg(ts[1], ts[2], d) : ts \in TimeSigs, d \in TsDeltas}
    \cup {NoteMsg(d, 0) : d \in NoteDeltas}

\* Every non-control message of a file gets a payload of its own, so that the
\* messages of the output can be told apart.
Label(track, n) ==
    [k \in 1..Len(track) |->
        IF track[k].type = "note_on"
        THEN [track[k] EXCEPT !.note = 10 * n + k]
        ELSE track[k]]

\* The files of n tracks holding at most budget messages in all
RECURSIVE FilesWith(_, _)
FilesWith(n, budget) ==
    IF n = 0 THEN {<<>>}
    ELSE UNION {
           {Append(rest, Label(t, n)) :
                rest \in FilesWith(n - 1, budget - l), t \in [1..l -> Alphabet]}
           : l \in 0..budget}

Containers ==
    {[valid |-> TRUE, ticks_per_beat |-> p, tracks |-> f] :
        p \in InputPPQs, f \in UNION {FilesWith(n, MaxMsgs) : n \in 0..MaxTracks}}

Garbage == [valid |-> FALSE, ticks_per_beat |-> 0, tracks |-> <<>>]

\* An optional argument: None, or a value
None == [some |-> FALSE, val |-> 0]
Some(v) == [some |-> TRUE, val |-> v]
Opt(S) == {None} \cup {Some(v) : v \in S}

IsControl(msg) == msg.type \in {"set_tempo", "time_signature"}

\* ------------------------------------------------------------------ state
VARIABLES
    pc,             \* the stage remap_midi_tempo_meter is at
    input,          \* the file at input_path
    dest,           \* the destination: its parent directory and the file
    target_bpm, target_ts_num, target_ts_den, target_ppq,   \* the arguments
    mid,            \* the parsed container
    orig_bpm, orig_ts_num, orig_ts_den, orig_ppq,
    final_bpm, final_ppq, final_ts_num, final_ts_den,
    i,              \* the track being converted (1-based)
    pos,            \* the messages of track i already read
    abs_tick, current_tempo,
    all_events,
    new_mid,        \* the container built in memory
    seg_pc,         \* the stage calculate_segmentation is at
    seg_bpm, beats_per_bar, parsed_points,      \* its arguments, parsed
    raw_segments, seg_i, final_result

rvars == <<pc, input, dest, target_bpm, target_ts_num, target_ts_den, target_ppq,
           mid, orig_bpm, orig_ts_num, orig_ts_den, orig_ppq,
           final_bpm, final_ppq, final_ts_num, final_ts_den,
           i, pos, abs_tick, current_tempo, all_events, new_mid>>
svars == <<seg_pc, seg_bpm, beats_per_bar, parsed_points,
           raw_segments, seg_i, final_result>>
vars == <<rvars, svars>>

NoContainer == [ticks_per_beat |-> 0, tracks |-> <<>>]

RemapIdle ==
    /\ pc = "idle"
    /\ input = Garbage
    /\ dest = [parent |-> "exists", file |-> "absent"]
    /\ target_bpm = None /\ target_ts_num = None
    /\ target_ts_den = None /\ target_ppq = None
    /\ mid = NoContainer
    /\ orig_bpm = <<0, 1>> /\ orig_ts_num = 0 /\ orig_ts_den = 0 /\ orig_ppq = 0
    /\ final_bpm = <<0, 1>> /\ final_ppq = 0 /\ final_ts_num = 0 /\ final_ts_den = 0
    /\ i = 0 /\ pos = 0 /\ abs_tick = 0 /\ current_tempo = 0
    /\ all_events = <<>>
    /\ new_mid = NoContainer

SegIdle ==
    /\ seg_pc = "idle"
    /\ seg_bpm = 0
    /\ beats_per_bar = 0
    /\ parsed_points = <<>>
    /\ raw_segments = <<>>
    /\ seg_i = 0
    /\ final_result = <<>>

\* The call remap_midi_tempo_meter(input_path, output_path, target_bpm,
\* target_ts_num, target_ts_den, target_ppq) is entered.
Init ==
    /\ pc = "mkdir"
    /\ input \in Containers \cup {Garbage}
    /\ dest \in {[parent |-> p, file |-> "absent"] : p \in {"missing", "exists"}}
    /\ target_bpm \in Opt(TargetBpms)
    /\ target_ts_num \in Opt(TargetTsNums)
    /\ target_ts_den \in Opt(TargetTsDens)
    /\ target_ppq \in Opt(TargetPpqs)
    /\ mid = NoContainer
    /\ orig_bpm = <<0, 1>> /\ orig_ts_num = 0 /\ orig_ts_den = 0 /\ orig_ppq = 0
    /\ final_bpm = <<0, 1>> /\ final_ppq = 0 /\ final_ts_num = 0 /\ final_ts_den = 0
    /\ i = 0 /\ pos = 0 /\ abs_tick = 0 /\ current_tempo = 0
    /\ all_events = <<>>
    /\ new_mid = NoContainer
    /\ SegIdle

\* ------------------------------------------------- remap_midi_tempo_meter
\* Lines 20-21: the destination's parent directory is created first.
Mkdir ==
    /\ pc = "mkdir"
    /\ dest' = [dest EXCEPT !.parent = "exists"]
    /\ pc' = "parse"
    /\ UNCHANGED <<input, target_bpm, target_ts_num, target_ts_den, target_ppq,
                   mid, orig_bpm, orig_ts_num, orig_ts_den, orig_ppq,
                   final_bpm, final_ppq, final_ts_num, final_ts_den,
                   i, pos, abs_tick, current_tempo, all_events, new_mid, svars>>

\* Lines 23-24: MidiFile(input_path) succeeds.
ParseOk ==
    /\ pc = "parse"
    /\ input.valid
    /\ mid' = [ticks_per_beat |-> input.ticks_per_beat, tracks |-> input.tracks]
    /\ pc' = "prescan"
    /\ UNCHANGED <<input, dest, target_bpm, target_ts_num, target_ts_den, target_ppq,
                   orig_bpm, orig_ts_num, orig_ts_den, orig_ppq,
                   final_bpm, final_ppq, final_ts_num, final_ts_den,
                   i, pos, abs_tick, current_tempo, all_events, new_mid, svars>>

\* Lines 25-27: MidiFile(input_path) raises; sys.exit(1).
ParseFail ==
    /\ pc = "parse"
    /\ ~input.valid
    /\ pc' = "exit"
    /\ UNCHANGED <<input, dest, target_bpm, target_ts_num, target_ts_den, target_ppq,
                   mid, orig_bpm, orig_ts_num, orig_ts_den, orig_ppq,
                   final_bpm, final_ppq, final_ts_num, final_ts_den,
                   i, pos, abs_tick, current_tempo, all_events, new_mid, svars>>

\* for track in mid.tracks: for msg in track: the messages in file order
RECURSIVE Flatten(_)
Flatten(tracks) ==
    IF tracks = <<>> THEN <<>> ELSE Head(tracks) \o Flatten(Tail(tracks))

\* Lines 35-38: the last set_tempo met wins
RECURSIVE ScanBpm(_, _)
ScanBpm(msgs, acc) ==
    IF msgs = <<>> THEN acc
    ELSE ScanBpm(Tail(msgs),
                 IF Head(msgs).type = "set_tempo"
                 THEN tempo2bpm(Head(msgs).tempo) ELSE acc)

\* Lines 39-41: the last time_signature met wins
RECURSIVE ScanTs(_, _)
ScanTs(msgs, acc) ==
    IF msgs = <<>> THEN acc
    ELSE ScanTs(Tail(msgs),
                IF Head(msgs).type = "time_signature"
                THEN <<Head(msgs).numerator, Head(msgs).denominator>> ELSE acc)

\* Lines 44-47: final_x = target_x if target_x is not None else orig_x
Resolve(target, orig) == IF target.some THEN target.val ELSE orig

\* Lines 29-47: the pre-scan and the resolution of the target parameters.
Prescan ==
    /\ pc = "prescan"
    /\ LET msgs == Flatten(mid.tracks)
           bpm == ScanBpm(msgs, <<DefaultBpm, 1>>)
           ts == ScanTs(msgs, <<DefaultTsNum, DefaultTsDen>>)
       IN  /\ orig_bpm' = bpm
           /\ orig_ts_num' = ts[1]
           /\ orig_ts_den' = ts[2]
           /\ orig_ppq' = mid.ticks_per_beat
           /\ final_bpm' = Resolve([some |-> target_bpm.some,
                                    val |-> <<target_bpm.val, 1>>], bpm)
           /\ final_ppq' = Resolve(target_ppq, mid.ticks_per_beat)
           /\ final_ts_num' = Resolve(target_ts_num, ts[1])
           /\ final_ts_den' = Resolve(target_ts_den, ts[2])
    /\ pc' = "convert"
    /\ UNCHANGED <<input, dest, target_bpm, target_ts_num, target_ts_den, target_ppq,
                   mid, i, pos, abs_tick, current_tempo, all_events, new_mid, svars>>

\* The inner loop over track i has read every message (or no track was entered)
TrackDone == IF i = 0 THEN TRUE ELSE pos = Len(mid.tracks[i])

\* A variant of TrackStartTempo: the running tempo is carried over from the
\* track before
TrackStartTempoInherited == IF i = 0 THEN bpm2tempo(orig_bpm) ELSE current_tempo

\* Line 53: current_tempo = mido.bpm2tempo(orig_bpm)
TrackStartTempo == bpm2tempo(orig_bpm)

\* Lines 51-53: the outer loop enters the next track.
StartTrack ==
    /\ pc = "convert"
    /\ TrackDone
    /\ i < Len(mid.tracks)
    /\ i' = i + 1
    /\ pos' = 0
    /\ abs_tick' = 0
    /\ current_tempo' = TrackStartTempo
    /\ UNCHANGED <<pc, input, dest, target_bpm, target_ts_num, target_ts_den,
                   target_ppq, mid, orig_bpm, orig_ts_num, orig_ts_den, orig_ppq,
                   final_bpm, final_ppq, final_ts_num, final_ts_den,
                   all_events, new_mid, svars>>

\* Line 56: abs_tick += msg.time
AbsTickAfter(tick, msg) == tick + msg.time

\* A variant of Dropped: time_signature messages are kept
DroppedTempoOnly(msg) == msg.type = "set_tempo"

\* Lines 60-64: set_tempo and time_signature messages are not kept
Dropped(msg) == msg.type = "set_tempo" \/ msg.type = "time_signature"

\* Lines 55-66: one message of track i is read.
ConvertMsg ==
    /\ pc = "convert"
    /\ i >= 1
    /\ pos < Len(mid.tracks[i])
    /\ LET msg == mid.tracks[i][pos + 1]
           tick == AbsTickAfter(abs_tick, msg)
           abs_seconds == tick2second(tick, mid.ticks_per_beat, current_tempo)
       IN  /\ abs_tick' = tick
           /\ current_tempo' =
                 IF msg.type = "set_tempo" THEN msg.tempo ELSE current_tempo
           /\ all_events' =
                 IF Dropped(msg) THEN all_events
                 ELSE Append(all_events,
                             [sec |-> abs_seconds, msg |-> msg, track |-> i])
    /\ pos' = pos + 1
    /\ UNCHANGED <<pc, input, dest, target_bpm, target_ts_num, target_ts_den,
                   target_ppq, mid, orig_bpm, orig_ts_num, orig_ts_den, orig_ppq,
                   final_bpm, final_ppq, final_ts_num, final_ts_den,
                   i, new_mid, svars>>

\* A variant of TrackEvents: the events are not filtered by track
TrackEventsAll(events, k) == events

\* Line 85: track_events = [e for e in all_events if e["track"] == i]
TrackEvents(events, k) == SelectSeq(events, LAMBDA e : e.track = k)

\* list.sort(key=sec) is stable: e goes after every element that is not greater
RECURSIVE InsertBySec(_, _)
InsertBySec(sorted, e) ==
    IF sorted = <<>> THEN <<e>>
    ELSE IF FracLess(e.sec, sorted[Len(sorted)].sec)
         THEN Append(InsertBySec(SubSeq(sorted, 1, Len(sorted) - 1), e),
                     sorted[Len(sorted)])
         ELSE Append(sorted, e)

\* A variant of SortBySec: the events are left in all_events order
SortBySecNone(events) == events

\* Line 86: track_events.sort(key=lambda x: x["sec"])
RECURSIVE SortBySec(_)
SortBySec(events) ==
    IF events = <<>> THEN <<>>
    ELSE InsertBySec(SortBySec(SubSeq(events, 1, Len(events) - 1)),
                     events[Len(events)])

\* A variant of NewTick: the input's resolution is used, not the target's
NewTickOrigPpq(sec, ppq, tempo) == RoundHalfEven(second2tick(sec, orig_ppq, tempo))

\* Lines 91-93: round(mido.second2tick(e["sec"], final_ppq, new_tempo_val))
NewTick(sec, ppq, tempo) == RoundHalfEven(second2tick(sec, ppq, tempo))

\* A variant of NewDelta: the absolute tick is written as the delta
NewDeltaAbsolute(current_abs_tick, last_tick) == current_abs_tick

\* Line 96: new_msg.time = current_abs_tick - last_tick
NewDelta(current_abs_tick, last_tick) == current_abs_tick - last_tick

\* Lines 88-98: the messages of one output track, from its sorted events
Reencode(events, ppq, tempo) ==
    LET tick(k) == IF k = 0 THEN 0 ELSE NewTick(events[k].sec, ppq, tempo)
    IN  [k \in 1..Len(events) |->
            [events[k].msg EXCEPT !.time = NewDelta(tick(k), tick(k - 1))]]

\* Lines 75-81: the two messages put at the head of track 0
GlobalMeta(tempo, num, den) == <<TempoMsg(tempo, 0), TsMsg(num, den, 0)>>

\* Lines 68-98 with at least one track: the new container is built in memory.
Assemble ==
    /\ pc = "convert"
    /\ TrackDone
    /\ i = Len(mid.tracks)
    /\ Len(mid.tracks) > 0
    /\ LET new_tempo_val == bpm2tempo(final_bpm)
           body(k) == Reencode(SortBySec(TrackEvents(all_events, k)),
                               final_ppq, new_tempo_val)
       IN  new_mid' =
             [ticks_per_beat |-> final_ppq,
              tracks |-> [k \in 1..Len(mid.tracks) |->
                            IF k = 1
                            THEN GlobalMeta(new_tempo_val, final_ts_num,
                                            final_ts_den) \o body(k)
                            ELSE body(k)]]
    /\ pc' = "save"
    /\ UNCHANGED <<input, dest, target_bpm, target_ts_num, target_ts_den, target_ppq,
                   mid, orig_bpm, orig_ts_num, orig_ts_den, orig_ppq,
                   final_bpm, final_ppq, final_ts_num, final_ts_den,
                   i, pos, abs_tick, current_tempo, all_events, svars>>

\* Line 76 with no track: new_tracks[0] raises IndexError; nothing is written.
AssembleNoTrack ==
    /\ pc = "convert"
    /\ Len(mid.tracks) = 0
    /\ pc' = "error"
    /\ UNCHANGED <<input, dest, target_bpm, target_ts_num, target_ts_den, target_ppq,
                   mid, orig_bpm, orig_ts_num, orig_ts_den, orig_ppq,
                   final_bpm, final_ppq, final_ts_num, final_ts_den,
                   i, pos, abs_tick, current_tempo, all_events, new_mid, svars>>

\* Lines 100-106: new_mid.save(output_file); the path is returned.
Save ==
    /\ pc = "save"
    /\ dest' = [dest EXCEPT !.file = "written"]
    /\ pc' = "done"
    /\ UNCHANGED <<input, target_bpm, target_ts_num, target_ts_den, target_ppq,
                   mid, orig_bpm, orig_ts_num, orig_ts_den, orig_ppq,
                   final_bpm, final_ppq, final_ts_num, final_ts_den,
                   i, pos, abs_tick, current_tempo, all_events, new_mid, svars>>

Next ==
    \/ Mkdir
    \/ ParseOk
    \/ ParseFail
    \/ Prescan
    \/ StartTrack
    \/ ConvertMsg
    \/ Assemble
    \/ AssembleNoTrack
    \/ Save

Spec == Init /\ [][Next]_vars

\* -------------------------------------------------- calculate_segmentation
SegBpms == {120, 240}
BeatsPerBar == {4}
Timestamps == {0, 3, 4, 40}
Tags == {"intro", "solo"}

\* Lines 7-16: SECTION_DICT
SECTION_DICT ==
    [intro |-> "i", verse |-> "A", chorus |-> "B", bridge |-> "C", inst |-> "D",
     outro |-> "O", end |-> "E"] @@ ("pre-chorus" :> "P")

\* name[0].upper(), for the tags of the model that are not sections
FirstUpper == [solo |-> "S"]

\* Line 58: SECTION_DICT.get(name, name[0].upper())
SectionLabel(name) ==
    IF name \in DOMAIN SECTION_DICT THEN SECTION_DICT[name] ELSE FirstUpper[name]

\* The call calculate_segmentation(bpm, beats_per_bar, msa_format) is entered;
\* lines 31-40 have parsed msa_format into (timestamp, tag) points.
SegInit ==
    /\ RemapIdle
    /\ seg_pc = "milestones"
    /\ seg_bpm \in SegBpms
    /\ beats_per_bar \in BeatsPerBar
    /\ parsed_points \in UNION {[1..n -> Timestamps \X Tags] : n \in 0..MaxMilestones}
    /\ raw_segments = <<>>
    /\ seg_i = 0
    /\ final_result = <<>>

\* Lines 34 and 46: int(round(timestamp * ((bpm / 60.0) / beats_per_bar)))
AbsoluteBar(timestamp, bpm, beats) ==
    RoundHalfEven(FracMul(<<timestamp, 1>>, Frac(bpm, 60 * beats)))

\* Lines 42-59: the bar position of every point, then the length of every
\* segment but the last point's. seg_i is the code's i, plus one.
RawSegments ==
    /\ seg_pc = "milestones"
    /\ LET bar_pos(k) == AbsoluteBar(parsed_points[k][1], seg_bpm, beats_per_bar)
       IN  raw_segments' =
             [k \in 1..(IF Len(parsed_points) = 0 THEN 0 ELSE Len(parsed_points) - 1) |->
                [label |-> SectionLabel(parsed_points[k][2]),
                 bars |-> bar_pos(k + 1) - bar_pos(k)]]
    /\ seg_i' = 1
    /\ seg_pc' = "merge"
    /\ UNCHANGED <<rvars, seg_bpm, beats_per_bar, parsed_points, final_result>>

\* raw_segments.pop(k)
Pop(seq, k) == SubSeq(seq, 1, k - 1) \o SubSeq(seq, k + 1, Len(seq))

\* Lines 65-71: the first segment is short and has a successor.
MergeForward ==
    /\ seg_pc = "merge"
    /\ seg_i <= Len(raw_segments)
    /\ raw_segments[seg_i].bars < MinBars
    /\ seg_i = 1 /\ Len(raw_segments) > 1
    /\ raw_segments' =
         Pop([raw_segments EXCEPT ![seg_i + 1].bars = @ + raw_segments[seg_i].bars],
             seg_i)
    /\ UNCHANGED <<rvars, seg_pc, seg_bpm, beats_per_bar, parsed_points,
                   seg_i, final_result>>

\* Lines 74-78: a short segment that is not the first goes into its predecessor.
MergeBackward ==
    /\ seg_pc = "merge"
    /\ seg_i <= Len(raw_segments)
    /\ raw_segments[seg_i].bars < MinBars
    /\ seg_i > 1
    /\ raw_segments' =
         Pop([raw_segments EXCEPT ![seg_i - 1].bars = @ + raw_segments[seg_i].bars],
             seg_i)
    /\ UNCHANGED <<rvars, seg_pc, seg_bpm, beats_per_bar, parsed_points,
                   seg_i, final_result>>

\* Lines 81-83: the only segment is short.
ClampSingle ==
    /\ seg_pc = "merge"
    /\ seg_i <= Len(raw_segments)
    /\ raw_segments[seg_i].bars < MinBars
    /\ seg_i = 1 /\ Len(raw_segments) = 1
    /\ raw_segments' =
         [raw_segments EXCEPT ![seg_i].bars =
             IF @ > MinBars THEN @ ELSE MinBars]
    /\ seg_i' = seg_i + 1
    /\ UNCHANGED <<rvars, seg_pc, seg_bpm, beats_per_bar, parsed_points,
                   final_result>>

\* Lines 84-85: the segment is long enough.
MergeSkip ==
    /\ seg_pc = "merge"
    /\ seg_i <= Len(raw_segments)
    /\ raw_segments[seg_i].bars >= MinBars
    /\ seg_i' = seg_i + 1
    /\ UNCHANGED <<rvars, seg_pc, seg_bpm, beats_per_bar, parsed_points,
                   raw_segments, final_result>>

\* Lines 92-100: split_recursive, as the entries it appends to final_result
RECURSIVE split_recursive(_, _)
split_recursive(label, bars) ==
    IF bars <= MaxBars
    THEN IF bars > 0 THEN <<[label |-> label, bars |-> bars]>> ELSE <<>>
    ELSE LET half == bars \div 2
             remainder == bars - half
         IN  split_recursive(label, half) \o split_recursive(label, remainder)

\* Lines 102-103: for seg in merged: split_recursive(seg["label"], seg["bars"])
RECURSIVE SplitAll(_)
SplitAll(merged) ==
    IF merged = <<>> THEN <<>>
    ELSE split_recursive(Head(merged).label, Head(merged).bars)
         \o SplitAll(Tail(merged))

\* Lines 64 and 87-105: the merge loop has ended; the segments are split and
\* joined (final_result holds the label and the bar count of every entry).
Split ==
    /\ seg_pc = "merge"
    /\ seg_i > Len(raw_segments)
    /\ final_result' = SplitAll(raw_segments)
    /\ seg_pc' = "done"
    /\ UNCHANGED <<rvars, seg_bpm, beats_per_bar, parsed_points,
                   raw_segments, seg_i>>

SegNext ==
    \/ RawSegments
    \/ MergeForward
    \/ MergeBackward
    \/ ClampSingle
    \/ MergeSkip
    \/ Split

SegSpec == SegInit /\ [][SegNext]_vars

\* ================================================================ claims
\* Vocabulary of the claims about remap_midi_tempo_meter.
Done == pc = "done"

NoOverrides ==
    /\ ~target_bpm.some /\ ~target_ppq.some
    /\ ~target_ts_num.some /\ ~target_ts_den.some

OnlyPpqOverride ==
    /\ ~target_bpm.some /\ target_ppq.some
    /\ ~target_ts_num.some /\ ~target_ts_den.some

\* The absolute tick of the n-th message of a track: the sum of its deltas
RECURSIVE SumTime(_, _)
SumTime(track, n) == IF n = 0 THEN 0 ELSE SumTime(track, n - 1) + track[n].time

\* The positions of the input's retained messages: <<track, index>>
RetainedAt ==
    {<<k, n>> \in (1..Len(mid.tracks)) \X (1..MaxMsgs) :
        n <= Len(mid.tracks[k]) /\ ~IsControl(mid.tracks[k][n])}

\* The positions in output track k of the message with the payload of m
OutPositions(k, m) ==
    IF k > Len(new_mid.tracks) THEN {}
    ELSE {p \in 1..Len(new_mid.tracks[k]) :
            [new_mid.tracks[k][p] EXCEPT !.time = 0] = [m EXCEPT !.time = 0]}

\* The tempo values of the file's tempo-control messages
FileTempos ==
    {Flatten(mid.tracks)[n].tempo :
        n \in {q \in 1..Len(Flatten(mid.tracks)) :
                 Flatten(mid.tracks)[q].type = "set_tempo"}}

\* The last tempo-control value met in the file in track order, or 120 BPM
ScannedTempo ==
    LET msgs == Flatten(mid.tracks)
        at == {q \in 1..Len(msgs) : msgs[q].type = "set_tempo"}
    IN  IF at = {} THEN 60000000 \div DefaultBpm
        ELSE msgs[CHOOSE q \in at : \A r \in at : r <= q].tempo

\* The last time signature met in the file in track order, or 4/4
ScannedTs ==
    LET msgs == Flatten(mid.tracks)
        at == {q \in 1..Len(msgs) : msgs[q].type = "time_signature"}
    IN  IF at = {} THEN <<DefaultTsNum, DefaultTsDen>>
        ELSE LET q == CHOOSE q \in at : \A r \in at : r <= q
             IN  <<msgs[q].numerator, msgs[q].denominator>>

\* The tempo of the output: the override's, else the scanned one
TargetTempo ==
    IF target_bpm.some THEN bpm2tempo(<<target_bpm.val, 1>>) ELSE ScannedTempo

TargetPpq == IF target_ppq.some THEN target_ppq.val ELSE mid.ticks_per_beat

FracAdd(x, y) == Frac(x[1] * y[2] + y[1] * x[2], x[2] * y[2])

\* The tempo in effect after the first n messages of a track that starts at tempo0
RECURSIVE TempoAfter(_, _, _)
TempoAfter(track, n, tempo0) ==
    IF n = 0 THEN tempo0
    ELSE IF track[n].type = "set_tempo" THEN track[n].tempo
    ELSE TempoAfter(track, n - 1, tempo0)

\* The real time of the n-th message of a track: every delta lasts what the tempo
\* in effect before it says, a tempo-control message governing only the ticks
\* from its own position forward. The track starts at the scanned original tempo.
RECURSIVE RealSeconds(_, _)
RealSeconds(track, n) ==
    IF n = 0 THEN <<0, 1>>
    ELSE FracAdd(RealSeconds(track, n - 1),
                 tick2second(track[n].time, mid.ticks_per_beat,
                             TempoAfter(track, n - 1, ScannedTempo)))

\* tick is within one tick of the position x (a rational number of ticks)
WithinOneTick(tick, x) == Abs(tick * x[2] - x[1]) <= x[2]

\* C1: every retained event is placed at its input real time: its output
\* absolute tick, under the target tempo and resolution, is within one tick of
\* its real time (each tempo-control event governing only the ticks after it).
C1_RealTimePreserved ==
    Done =>
      \A r \in RetainedAt :
        \E p \in OutPositions(r[1], mid.tracks[r[1]][r[2]]) :
          WithinOneTick(SumTime(new_mid.tracks[r[1]], p),
                        second2tick(RealSeconds(mid.tracks[r[1]], r[2]),
                                    TargetPpq, TargetTempo))

\* The scenario of C1: resolution 480, one tempo-control of 500000 at tick 0 and
\* a note at tick 960, remapped to 60 BPM: the note is at tick 480.
C1_Scenario ==
    (/\ Done
     /\ mid.ticks_per_beat = 480
     /\ mid.tracks = <<Label(<<TempoMsg(500000, 0), NoteMsg(960, 0)>>, 1)>>
     /\ target_bpm = Some(60) /\ ~target_ppq.some)
    => /\ Len(new_mid.tracks[1]) = 3
       /\ SumTime(new_mid.tracks[1], 3) = 480

\* C2: with no overrides every retained event's output absolute tick is within 1
\* of its input absolute tick.
C2_Identity ==
    (Done /\ NoOverrides) =>
      \A r \in RetainedAt :
        \E p \in OutPositions(r[1], mid.tracks[r[1]][r[2]]) :
          Abs(SumTime(new_mid.tracks[r[1]], p) - SumTime(mid.tracks[r[1]], r[2])) <= 1

\* C2 as amended: the same, for the files whose tempo-control events all carry
\* one tempo value (or that have none).
C2_IdentityOneTempo ==
    (Done /\ NoOverrides /\ Cardinality(FileTempos) <= 1) =>
      \A r \in RetainedAt :
        \E p \in OutPositions(r[1], mid.tracks[r[1]][r[2]]) :
          Abs(SumTime(new_mid.tracks[r[1]], p) - SumTime(mid.tracks[r[1]], r[2])) <= 1

C2_Witness ==
    /\ Done /\ NoOverrides
    /\ FileTempos = {1000000}
    /\ \E r \in RetainedAt :
          /\ r[1] = 2
          /\ SumTime(mid.tracks[r[1]], r[2]) > 960
          /\ \E p \in OutPositions(r[1], mid.tracks[r[1]][r[2]]) :
                SumTime(new_mid.tracks[r[1]], p) = SumTime(mid.tracks[r[1]], r[2])

\* C3: with only target_ppq = P2 given, every retained event's output absolute
\* tick is within 1 of its input absolute tick times P2/P1.
C3_ResolutionScaling ==
    (Done /\ OnlyPpqOverride) =>
      \A r \in RetainedAt :
        \E p \in OutPositions(r[1], mid.tracks[r[1]][r[2]]) :
          WithinOneTick(SumTime(new_mid.tracks[r[1]], p),
                        Frac(SumTime(mid.tracks[r[1]], r[2]) * target_ppq.val,
                             mid.ticks_per_beat))

\* C3 as amended: the same, for the files whose tempo-control events all carry
\* one tempo value (or that have none).
C3_ResolutionScalingOneTempo ==
    (Done /\ OnlyPpqOverride /\ Cardinality(FileTempos) <= 1) =>
      \A r \in RetainedAt :
        \E p \in OutPositions(r[1], mid.tracks[r[1]][r[2]]) :
          WithinOneTick(SumTime(new_mid.tracks[r[1]], p),
                        Frac(SumTime(mid.tracks[r[1]], r[2]) * target_ppq.val,
                             mid.ticks_per_beat))

\* A note at tick 960 under resolution 480 is at tick 1920 under resolution 960.
C3_Witness ==
    /\ Done /\ OnlyPpqOverride
    /\ mid.ticks_per_beat = 480 /\ target_ppq.val = 960
    /\ Cardinality(FileTempos) = 1
    /\ \E r \in RetainedAt :
          /\ SumTime(mid.tracks[r[1]], r[2]) = 960
          /\ \E p \in OutPositions(r[1], mid.tracks[r[1]][r[2]]) :
                SumTime(new_mid.tracks[r[1]], p) = 1920

TargetTsNum == IF target_ts_num.some THEN target_ts_num.val ELSE ScannedTs[1]

TargetTsDen == IF target_ts_den.some THEN target_ts_den.val ELSE ScannedTs[2]

\* The indices of the messages of a type in a sequence of messages
IndicesOf(msgs, type) == {q \in 1..Len(msgs) : msgs[q].type = type}

\* C4: the output holds exactly one tempo-control and one time-signature-control
\* event over all tracks; they are the first two messages of track 0, at tick 0,
\* and carry the resolved target tempo and numerator/denominator.
C4_SingleGlobalMeta ==
    Done =>
      LET out == new_mid.tracks
      IN  /\ Cardinality(IndicesOf(Flatten(out), "set_tempo")) = 1
          /\ Cardinality(IndicesOf(Flatten(out), "time_signature")) = 1
          /\ Len(out[1]) >= 2
          /\ out[1][1] = TempoMsg(TargetTempo, 0)
          /\ out[1][2] = TsMsg(TargetTsNum, TargetTsDen, 0)

\* Tempo-control events in both tracks and a time signature in the second
C4_Witness ==
    /\ Done
    /\ Len(mid.tracks) = 2
    /\ IndicesOf(mid.tracks[1], "set_tempo") # {}
    /\ IndicesOf(mid.tracks[2], "set_tempo") # {}
    /\ IndicesOf(mid.tracks[2], "time_signature") # {}
    /\ target_ts_num.some /\ ~target_ts_den.some
    /\ new_mid.tracks[1][1].tempo = 1000000
    /\ new_mid.tracks[1][2].numerator = 3 /\ new_mid.tracks[1][2].denominator = 8

\* The payloads of the non-control messages of a track, in the track's order
NotesOf(track) ==
    LET kept == SelectSeq(track, LAMBDA m : ~IsControl(m))
    IN  [n \in 1..Len(kept) |-> kept[n].note]

\* C5: in every track the retained events appear in the output in the same
\* relative order as in the input.
C5_OrderPreserved ==
    Done =>
      \A k \in 1..Len(mid.tracks) :
        NotesOf(new_mid.tracks[k]) = NotesOf(mid.tracks[k])

\* C6: every delta time written is greater than or equal to 0.
C6_NonNegativeDeltas ==
    Done =>
      \A k \in 1..Len(new_mid.tracks) :
        \A p \in 1..Len(new_mid.tracks[k]) : new_mid.tracks[k][p].time >= 0

\* A track whose events the sort has put in another order
C6_Witness ==
    /\ Done
    /\ \E k \in 1..Len(mid.tracks) :
          /\ NotesOf(new_mid.tracks[k]) # NotesOf(mid.tracks[k])
          /\ \E p \in 1..Len(new_mid.tracks[k]) : new_mid.tracks[k][p].time > 0

\* C7: the output has the input's tracks in the input's order; output track i
\* holds, apart from the two control events put into track 0, exactly the
\* non-control events of input track i, each once, the delta time alone changed.
C7_OnlyTimingChanges ==
    Done =>
      /\ Len(new_mid.tracks) = Len(mid.tracks)
      /\ \A k \in 1..Len(mid.tracks) :
            /\ Len(new_mid.tracks[k]) =
                  Len(NotesOf(mid.tracks[k])) + (IF k = 1 THEN 2 ELSE 0)
            /\ \A n \in 1..Len(mid.tracks[k]) :
                  ~IsControl(mid.tracks[k][n]) =>
                     Cardinality(OutPositions(k, mid.tracks[k][n])) = 1

\* Two tracks, each with a retained event, the second with a dropped one too
C7_Witness ==
    /\ Done
    /\ Len(mid.tracks) = 2
    /\ Len(NotesOf(mid.tracks[1])) >= 1
    /\ Len(NotesOf(mid.tracks[2])) >= 2
    /\ Len(mid.tracks[2]) > Len(NotesOf(mid.tracks[2]))
    /\ \E p \in 1..Len(new_mid.tracks[2]) :
          new_mid.tracks[2][p].time # mid.tracks[2][p].time

\* C8: when the input cannot be parsed, nothing is created at the destination:
\* no step of such a run changes the destination.
C8_NothingCreatedOnParseError == [][~input.valid => dest' = dest]_vars

\* C9: a track's conversion starts at the scanned original tempo whatever the
\* tracks before it held; the running tempo changes only at a tempo-control
\* event of the track being converted; an event of a track without tempo-control
\* events is converted with the scanned original tempo.
C9_TempoPerTrack ==
    [][/\ (pc' = "convert" /\ i' # i) => current_tempo' = ScannedTempo
       /\ (current_tempo' # current_tempo) =>
             \/ i' # i
             \/ /\ pos' = pos + 1
                /\ mid.tracks[i][pos'].type = "set_tempo"
                /\ current_tempo' = mid.tracks[i][pos'].tempo
       /\ (Len(all_events') > Len(all_events)
             /\ IndicesOf(mid.tracks[i], "set_tempo") = {}) =>
             all_events'[Len(all_events')].sec =
                 tick2second(SumTime(mid.tracks[i], pos'), mid.ticks_per_beat,
                             ScannedTempo)
      ]_vars

\* The second track is entered after a first track that ended at another tempo
\* than the scanned one
C9_Witness ==
    /\ pc = "convert" /\ i = 2 /\ pos = 0
    /\ current_tempo = ScannedTempo
    /\ TempoAfter(mid.tracks[1], Len(mid.tracks[1]), ScannedTempo) # ScannedTempo
    /\ Len(NotesOf(mid.tracks[2])) >= 1

\* C10: every segment of the string calculate_segmentation returns has at least
\* 2 and at most 16 bars.
C10_SegmentBounds ==
    seg_pc = "done" =>
      \A n \in 1..Len(final_result) :
        final_result[n].bars >= MinBars /\ final_result[n].bars <= MaxBars

\* The same for the milestones whose timestamps do not decrease (and the
\* positive tempo and bar length of the model).
C10_SegmentBoundsSorted ==
    (/\ seg_pc = "done"
     /\ \A n \in 1..Len(parsed_points) - 1 :
           parsed_points[n][1] <= parsed_points[n + 1][1])
    => \A n \in 1..Len(final_result) :
         final_result[n].bars >= MinBars /\ final_result[n].bars <= MaxBars

====
